---- MODULE Spec2Model ----
(***************************************************************************)
(* Model of the hiscores retrieval-and-parsing module                      *)
(* (src/lambda/get_and_parse_hiscores/lib/hiscores/rs_api.py).             *)
(*                                                                         *)
(* Python strings are modelled as sequences of one-character strings, so   *)
(* that strip, split, substring search, replace and int() are computed on  *)
(* characters the way the interpreter computes them.                       *)
(***************************************************************************)
EXTENDS Integers, Sequences, FiniteSets, TLC

VARIABLES
    pc,        \* position of the invocation under way
    payload,   \* what upstream composed: a sequence of line kinds
    text,      \* the body text handed to sanitize_hiscores_stats
    result,    \* the outcome of sanitize_hiscores_stats
    log,       \* warnings written to the logger by the invocation
    player,    \* request_hiscores: the player argument
    gets,      \* request_hiscores: GET requests issued by the invocation
    response,  \* the HTTP response object (text, status_code, elapsed, url)
    outcome,   \* the outcome of request_hiscores / process_hiscores_response
    history,   \* completed request_hiscores invocations
    echo       \* what the request URL of the response was composed of

vars ==
    <<pc, payload, text, result, log, player, gets, response, outcome, history, echo>>

Unused == "unused"

----------------------------------------------------------------------------
(* Bounds of the model.                                                    *)

\* longest payload, in lines, that upstream sends
MaxLines == 5
\* longest query string, in characters, of an echoed request URL
MaxQueryLen == 5
\* request_hiscores invocations in one behaviour
MaxCalls == 2

----------------------------------------------------------------------------
(* Python string primitives, on sequences of characters.                   *)

Min(a, b) == IF a < b THEN a ELSE b

Whitespace == {" ", "\n", "\t", "\r"}

\* str.lstrip / str.rstrip / str.strip
RECURSIVE LStrip(_)
LStrip(s) ==
    IF s # <<>> /\ Head(s) \in Whitespace THEN LStrip(Tail(s)) ELSE s

RECURSIVE RStrip(_)
RStrip(s) ==
    IF s # <<>> /\ s[Len(s)] \in Whitespace
    THEN RStrip(SubSeq(s, 1, Len(s) - 1))
    ELSE s

Strip(s) == RStrip(LStrip(s))

\* str.split(sep) for a one-character sep: always at least one piece,
\* empty pieces kept
RECURSIVE SplitFrom(_, _, _)
SplitFrom(s, sep, cur) ==
    IF s = <<>> THEN <<cur>>
    ELSE IF Head(s) = sep THEN <<cur>> \o SplitFrom(Tail(s), sep, <<>>)
    ELSE SplitFrom(Tail(s), sep, Append(cur, Head(s)))

Split(s, sep) == SplitFrom(s, sep, <<>>)

\* sep.join(parts)
RECURSIVE Join(_, _)
Join(parts, sep) ==
    IF parts = <<>> THEN <<>>
    ELSE IF Len(parts) = 1 THEN parts[1]
    ELSE parts[1] \o sep \o Join(Tail(parts), sep)

\* needle in hay
IsSubstring(needle, hay) ==
    \E i \in 0..(Len(hay) - Len(needle)) :
        SubSeq(hay, i + 1, i + Len(needle)) = needle

\* str.replace(old, new) for one-character old and new
Replace(s, old, new) == [i \in 1..Len(s) |-> IF s[i] = old THEN new ELSE s[i]]

\* str.lower on the letters the model uses
LowerChar(c) ==
    CASE c = "I" -> "i" [] c = "R" -> "r" [] c = "O" -> "o" [] c = "N" -> "n"
      [] c = "D" -> "d" [] c = "C" -> "c" [] c = "T" -> "t" [] c = "Y" -> "y"
      [] c = "P" -> "p" [] c = "E" -> "e" [] c = "H" -> "h" [] c = "M" -> "m"
      [] c = "L" -> "l" [] c = "B" -> "b"
      [] OTHER -> c

Lower(s) == [i \in 1..Len(s) |-> LowerChar(s[i])]

DigitChars == <<"0", "1", "2", "3", "4", "5", "6", "7", "8", "9">>

DigitValue(c) == (CHOOSE d \in 1..10 : DigitChars[d] = c) - 1

IsDigit(c) == \E d \in 1..10 : DigitChars[d] = c

\* value of a non-empty run of decimal digits
RECURSIVE DigitsValue(_)
DigitsValue(ds) ==
    IF ds = <<>> THEN 0
    ELSE 10 * DigitsValue(SubSeq(ds, 1, Len(ds) - 1)) + DigitValue(ds[Len(ds)])

\* int(s): surrounding whitespace is ignored, one optional sign, then one or
\* more decimal digits; anything else raises ValueError
ParseInt(s) ==
    LET t == Strip(s)
        signed == t # <<>> /\ Head(t) \in {"-", "+"}
        ds == IF signed THEN Tail(t) ELSE t
    IN  IF ds # <<>> /\ \A i \in 1..Len(ds) : IsDigit(ds[i])
        THEN [ok |-> TRUE,
              val |-> IF signed /\ Head(t) = "-" THEN 0 - DigitsValue(ds)
                      ELSE DigitsValue(ds)]
        ELSE [ok |-> FALSE, val |-> 0]

\* str(n) for an integer, as upstream writes it
RECURSIVE NatToChars(_)
NatToChars(n) ==
    IF n < 10 THEN <<DigitChars[n + 1]>>
    ELSE NatToChars(n \div 10) \o <<DigitChars[(n % 10) + 1]>>

IntToChars(n) == IF n < 0 THEN <<"-">> \o NatToChars(0 - n) ELSE NatToChars(n)

----------------------------------------------------------------------------
(* The catalogs and schemas of lib/hiscores/constants.py.                  *)

HISCORES_RESPONSE_SKILL_COLS == <<"rank", "level", "experience">>

HISCORE_RESPONSE_ACTIVITY_COLS == <<"rank", "score">>

HISCORES_RESPONSE_SKILLS == <<"Overall", "Attack">>

HISCORES_RESPONSE_ACTIVITIES == <<"League Points", "Bounty Hunter">>

NumSkills == Len(HISCORES_RESPONSE_SKILLS)

NumActivities == Len(HISCORES_RESPONSE_ACTIVITIES)

----------------------------------------------------------------------------
(* rs_api.py: parsing.                                                     *)

\* dict(zip(keys, values)) for sequences keys and values: zip stops at the
\* shorter one
DictZip(keys, values) ==
    LET n == Min(Len(keys), Len(values))
    IN  [k \in {keys[i] : i \in 1..n} |->
            values[CHOOSE i \in 1..n : keys[i] = k /\ \A j \in (i+1)..n : keys[j] # k]]

_parse_hiscores_response_line(line, schema) ==
    LET split_line == Split(line, ",")
        ints == [i \in 1..Len(split_line) |-> ParseInt(split_line[i])]
    IN  IF Len(schema) # Len(split_line)
        THEN [err |-> "InvalidSchemaError", val |-> <<>>]
        ELSE IF \E i \in 1..Len(ints) : ~ints[i].ok
        THEN [err |-> "ValueError", val |-> <<>>]
        ELSE [err |-> "none",
              val |-> DictZip(schema, [i \in 1..Len(ints) |-> ints[i].val])]

_parse_skill_line(line) ==
    _parse_hiscores_response_line(line, HISCORES_RESPONSE_SKILL_COLS)

_parse_activity_line(line) ==
    _parse_hiscores_response_line(line, HISCORE_RESPONSE_ACTIVITY_COLS)

\* map(_parse_skill_line, lines) / map(_parse_activity_line, lines)
MapSkillLines(lines) == [i \in 1..Len(lines) |-> _parse_skill_line(lines[i])]

MapActivityLines(lines) == [i \in 1..Len(lines) |-> _parse_activity_line(lines[i])]

\* ZipParsed as it would be if every line of the block were parsed, the ones
\* after the last label too
ZipParsedEveryLine(labels, parsed) ==
    LET n == Min(Len(labels), Len(parsed))
        bad == {i \in 1..Len(parsed) : parsed[i].err # "none"}
    IN  IF bad # {}
        THEN [err |-> parsed[CHOOSE i \in bad : \A j \in bad : i <= j].err,
              val |-> <<>>]
        ELSE [err |-> "none",
              val |-> DictZip(labels, [i \in 1..n |-> parsed[i].val])]

\* dict(zip(labels, map(parse, lines))), given parsed = the map's items: zip
\* asks labels first, so the map is advanced only while a label is left, one
\* line at a time and in order; the first line that raises ends the
\* evaluation, and lines after the last label are never parsed
ZipParsed(labels, parsed) ==
    LET n == Min(Len(labels), Len(parsed))
        bad == {i \in 1..n : parsed[i].err # "none"}
    IN  IF bad # {}
        THEN [err |-> parsed[CHOOSE i \in bad : \A j \in bad : i <= j].err,
              val |-> <<>>]
        ELSE [err |-> "none",
              val |-> DictZip(labels, [i \in 1..n |-> parsed[i].val])]

\* lines = text.strip().split("\n")
SanitizeLines(t) == Split(Strip(t), "\n")

\* skill_lines = lines[: len(HISCORES_RESPONSE_SKILLS)]
SkillLines(lines) == SubSeq(lines, 1, Min(Len(lines), NumSkills))

\* ActivityLines as it would be with the slice starting one line early
ActivityLinesFromLastSkill(lines) == SubSeq(lines, NumSkills, Len(lines))

\* activity_lines = lines[len(HISCORES_RESPONSE_SKILLS) :]
ActivityLines(lines) == SubSeq(lines, NumSkills + 1, Len(lines))

LineCountWarning == "unexpected number of lines"

\* the warnings sanitize_hiscores_stats logs for text t
SanitizeLog(t) ==
    IF Len(SanitizeLines(t)) # NumSkills + NumActivities
    THEN <<LineCountWarning>>
    ELSE <<>>

Failure(kind) == [kind |-> kind, skills |-> <<>>, activities |-> <<>>]

\* InvalidSchemaError is caught and re-raised as the ValueError of the skill
\* or activity block; the ValueError of int() is not caught
sanitize_hiscores_stats(t) ==
    LET lines == SanitizeLines(t)
        skill_dict == ZipParsed(HISCORES_RESPONSE_SKILLS, MapSkillLines(SkillLines(lines)))
        activity_dict ==
            ZipParsed(HISCORES_RESPONSE_ACTIVITIES,
                      MapActivityLines(ActivityLines(lines)))
    IN  IF skill_dict.err = "InvalidSchemaError" THEN Failure("MalformedSkillData")
        ELSE IF skill_dict.err = "ValueError" THEN Failure("IntValueError")
        ELSE IF activity_dict.err = "InvalidSchemaError"
        THEN Failure("MalformedActivityData")
        ELSE IF activity_dict.err = "ValueError" THEN Failure("IntValueError")
        ELSE [kind |-> "ok", skills |-> skill_dict.val,
              activities |-> activity_dict.val]

----------------------------------------------------------------------------
(* The upstream service: what a payload looks like on the wire.            *)

\* A payload is a sequence of line kinds: three or two integer fields
\* ("ok3", "ok2", and "alt3", "alt2" with other integers), or three or two
\* fields of which the second is not a number ("nan3", "nan2"). -1 is the
\* upstream sentinel of an unranked entry.
LineKinds == {"ok3", "ok2", "alt3", "alt2", "nan3", "nan2"}

\* the number of comma-separated fields of a line of this kind
KindCount(kind) == IF kind \in {"ok3", "alt3", "nan3"} THEN 3 ELSE 2

\* whether every field of a line of this kind is an integer
KindNumeric(kind) == kind \in {"ok3", "ok2", "alt3", "alt2"}

\* the integer upstream writes in field k of the line of kind at position i
FieldValue(kind, i, k) ==
    IF kind \in {"alt3", "alt2"} THEN 100 * k + i
    ELSE IF k = 1 /\ i % 2 = 0 THEN -1
    ELSE 10 * i + k

NotANumber == <<"x">>

\* the comma-separated fields of the line of kind at position i
LineFields(kind, i) ==
    [k \in 1..KindCount(kind) |->
        IF ~KindNumeric(kind) /\ k = 2 THEN NotANumber
        ELSE IntToChars(FieldValue(kind, i, k))]

\* the body text of payload p; upstream ends the last line with a newline
\* when trailing is TRUE
Render(p, trailing) ==
    Join([i \in 1..Len(p) |-> Join(LineFields(p[i], i), <<",">>)], <<"\n">>)
        \o (IF trailing THEN <<"\n">> ELSE <<>>)

Payloads == UNION {[1..n -> LineKinds] : n \in 0..MaxLines}

----------------------------------------------------------------------------
(* Specification of sanitize_hiscores_stats alone: one call on one text.   *)

InitSanitize ==
    /\ pc = "sanitize"
    /\ payload \in Payloads
    /\ \E trailing \in BOOLEAN : text = Render(payload, trailing)
    /\ result = Unused
    /\ log = <<>>
    /\ player = Unused
    /\ gets = 0
    /\ response = Unused
    /\ outcome = Unused
    /\ history = <<>>
    /\ echo = Unused

Sanitize ==
    /\ pc = "sanitize"
    /\ log' = log \o SanitizeLog(text)
    /\ result' = sanitize_hiscores_stats(text)
    /\ pc' = "done"
    /\ UNCHANGED <<payload, text, player, gets, response, outcome, history, echo>>

NextSanitize == Sanitize

SpecSanitize == InitSanitize /\ [][NextSanitize]_vars

----------------------------------------------------------------------------
(* rs_api.py: the fetcher.                                                 *)

HISCORES_API ==
    <<"https://secure.runescape.com/m=hiscore_oldschool/index_lite.ws">>

HISCORES_IRONMAN_API ==
    <<"https://secure.runescape.com/m=hiscore_oldschool_ironman/index_lite.ws">>

\* if "iron" in player.lower()
get_hiscores_api(p) ==
    IF IsSubstring(<<"i", "r", "o", "n">>, Lower(p))
    THEN HISCORES_IRONMAN_API
    ELSE HISCORES_API

\* the default of request_hiscores: warn_secs = 10
DefaultWarnSecs == 10

\* the literal "<!doctype html>"
HtmlMarker ==
    <<"<", "!", "d", "o", "c", "t", "y", "p", "e", " ", "h", "t", "m", "l", ">">>

SlowWarning == "longer than expected response time"

\* the warnings request_hiscores logs for a response that arrived
RequestLog(resp, warn_secs) ==
    IF resp.elapsed > warn_secs THEN <<SlowWarning>> ELSE <<>>

\* RequestOutcome as it would be with the status check before the HTML check
RequestOutcomeStatusFirst(resp, warn_secs) ==
    IF resp.status_code # 200
    THEN [kind |-> "InvalidResponse"]
    ELSE IF IsSubstring(HtmlMarker, resp.text)
    THEN [kind |-> "HiscoresDownError"]
    ELSE [kind |-> "ok"]

\* RequestOutcome as it would be if a slow response were treated as an outage
RequestOutcomeSlowFails(resp, warn_secs) ==
    IF resp.elapsed > warn_secs \/ IsSubstring(HtmlMarker, resp.text)
    THEN [kind |-> "HiscoresDownError"]
    ELSE IF resp.status_code # 200
    THEN [kind |-> "InvalidResponse"]
    ELSE [kind |-> "ok"]

\* request_hiscores after requests.get has returned resp: the HTML check,
\* then the status check, then the response itself
RequestOutcome(resp, warn_secs) ==
    IF IsSubstring(HtmlMarker, resp.text)
    THEN [kind |-> "HiscoresDownError"]
    ELSE IF resp.status_code # 200
    THEN [kind |-> "InvalidResponse"]
    ELSE [kind |-> "ok"]

\* request_hiscores when requests.get raises exc: only ReadTimeout is caught
\* (and re-raised as HiscoresDownError); any other exception of the
\* transport propagates as it is
RequestRaised(exc) ==
    IF exc = "ReadTimeout"
    THEN [kind |-> "HiscoresDownError"]
    ELSE [kind |-> exc]

----------------------------------------------------------------------------
(* The transport: what requests.get does with the request.                 *)

\* the query string requests composes from params={"player": player}: a
\* space of the player name is written "+"
PreparedUrl(p) ==
    get_hiscores_api(p) \o <<"?", "p", "l", "a", "y", "e", "r", "=">>
        \o Replace(p, " ", "+")

Players == {<<"b", "o", "b">>, <<"I", "R", "o", "n", " ", "B">>}

\* the bodies upstream answers with: the statistics, its maintenance page,
\* the same page after a blank line, and a page with an upper-case doctype
BodyKinds == {"stats", "html", "html_late", "HTML"}

PageRest == <<"<", "h", "t", "m", "l", ">">>

BodyText(kind) ==
    CASE kind = "stats" -> Render(<<"ok3", "ok3", "ok2", "ok2">>, TRUE)
      [] kind = "html" -> HtmlMarker \o PageRest
      [] kind = "html_late" -> <<"\n">> \o HtmlMarker \o PageRest
      [] kind = "HTML" ->
            <<"<", "!", "D", "O", "C", "T", "Y", "P", "E", " ", "h", "t", "m", "l", ">">>
                \o PageRest

StatusCodes == {200, 503}

\* elapsed times of a response, in seconds, around the warning threshold
ElapsedSecs == {DefaultWarnSecs, DefaultWarnSecs + 1}

\* requests.exceptions.Timeout has two subclasses, raised when the connection
\* is not made in time and when the server does not answer in time
TransportTimeouts == {"ConnectTimeout", "ReadTimeout"}

NoResponse == [text |-> <<>>, status_code |-> 0, elapsed |-> 0, url |-> <<>>]

NoOutcome == [kind |-> "none"]

----------------------------------------------------------------------------
(* Specification of request_hiscores: up to MaxCalls invocations, one      *)
(* after the other.                                                        *)

InitRequest ==
    /\ pc = "idle"
    /\ payload = Unused
    /\ text = Unused
    /\ result = Unused
    /\ log = <<>>
    /\ player = <<>>
    /\ gets = 0
    /\ response = NoResponse
    /\ outcome = NoOutcome
    /\ history = <<>>
    /\ echo = Unused

\* request_hiscores(player) is entered and blocks in requests.get
Call(p) ==
    /\ pc = "idle"
    /\ Len(history) < MaxCalls
    /\ player' = p
    /\ gets' = 1
    /\ log' = <<>>
    /\ response' = NoResponse
    /\ outcome' = NoOutcome
    /\ pc' = "waiting"
    /\ UNCHANGED <<payload, text, result, history, echo>>

\* requests.get raises a timeout; the invocation ends
GetTimesOut(exc) ==
    /\ pc = "waiting"
    /\ outcome' = RequestRaised(exc)
    /\ history' = Append(history,
            [player |-> player, transport |-> exc, body |-> "none",
             response |-> NoResponse, outcome |-> RequestRaised(exc),
             log |-> log, gets |-> gets])
    /\ pc' = "idle"
    /\ UNCHANGED <<payload, text, result, log, player, gets, response, echo>>

\* requests.get returns a response; the invocation runs to its end
GetReturns(body, status, secs) ==
    LET resp == [text |-> BodyText(body), status_code |-> status,
                 elapsed |-> secs, url |-> PreparedUrl(player)]
    IN  /\ pc = "waiting"
        /\ response' = resp
        /\ log' = log \o RequestLog(resp, DefaultWarnSecs)
        /\ outcome' = RequestOutcome(resp, DefaultWarnSecs)
        /\ history' = Append(history,
                [player |-> player, transport |-> "response", body |-> body,
                 response |-> resp,
                 outcome |-> RequestOutcome(resp, DefaultWarnSecs),
                 log |-> log \o RequestLog(resp, DefaultWarnSecs), gets |-> gets])
        /\ pc' = "idle"
        /\ UNCHANGED <<payload, text, result, player, gets, echo>>

NextRequest ==
    \/ \E p \in Players : Call(p)
    \/ \E exc \in TransportTimeouts : GetTimesOut(exc)
    \/ \E body \in BodyKinds, status \in StatusCodes, secs \in ElapsedSecs :
            GetReturns(body, status, secs)

SpecRequest == InitRequest /\ [][NextRequest]_vars

----------------------------------------------------------------------------
(* rs_api.py: the enricher.                                                *)

\* the index of the first c in s, or 0
FirstIndex(s, c) ==
    IF \E i \in 1..Len(s) : s[i] = c
    THEN CHOOSE i \in 1..Len(s) : s[i] = c /\ \A j \in 1..(i - 1) : s[j] # c
    ELSE 0

\* urlparse(url).query: the fragment is cut at the first "#", then the query
\* is what follows the first "?"
UrlQuery(url) ==
    LET hash == FirstIndex(url, "#")
        nofrag == IF hash = 0 THEN url ELSE SubSeq(url, 1, hash - 1)
        mark == FirstIndex(nofrag, "?")
    IN  IF mark = 0 THEN <<>> ELSE SubSeq(nofrag, mark + 1, Len(nofrag))

PlayerKey == <<"p", "l", "a", "y", "e", "r">>

\* two decimal digits, zero-padded, as strftime writes %m %d %H %M %S
TwoDigits(n) == IF n < 10 THEN <<"0">> \o NatToChars(n) ELSE NatToChars(n)

\* now.strftime("%Y-%m-%d %H:%M:%S")
Strftime(now) ==
    NatToChars(now.year) \o <<"-">> \o TwoDigits(now.month) \o <<"-">>
        \o TwoDigits(now.day) \o <<" ">> \o TwoDigits(now.hour) \o <<":">>
        \o TwoDigits(now.minute) \o <<":">> \o TwoDigits(now.second)

\* process_hiscores_response as it would be with only the key checked, the
\* number of "=" not
ProcessChecksKeyOnly(resp, now) ==
    LET parsed == sanitize_hiscores_stats(resp.text)
        query == Split(UrlQuery(resp.url), "=")
    IN  IF parsed.kind # "ok" THEN [kind |-> parsed.kind]
        ELSE IF Len(query) < 2 \/ query[1] # PlayerKey
        THEN [kind |-> "InvalidRequestEcho"]
        ELSE [kind |-> "ok", skills |-> parsed.skills,
              activities |-> parsed.activities,
              player |-> Replace(query[2], "+", " "),
              timestamp |-> Strftime(now)]

process_hiscores_response(resp, now) ==
    LET parsed == sanitize_hiscores_stats(resp.text)
        query == Split(UrlQuery(resp.url), "=")
    IN  IF parsed.kind # "ok" THEN [kind |-> parsed.kind]
        ELSE IF Len(query) # 2 \/ query[1] # PlayerKey
        THEN [kind |-> "InvalidRequestEcho"]
        ELSE [kind |-> "ok", skills |-> parsed.skills,
              activities |-> parsed.activities,
              player |-> Replace(query[2], "+", " "),
              timestamp |-> Strftime(now)]

----------------------------------------------------------------------------
(* The echoed request: what the URL of a response looks like.              *)

\* A query string is a sequence of tokens: the word player, the separators
\* of a query string, the "+" of an encoded space, and a letter.
QueryTokens == {"player", "=", "&", "+", "a"}

TokenChars(tok) == IF tok = "player" THEN PlayerKey ELSE <<tok>>

RECURSIVE Flatten(_)
Flatten(toks) ==
    IF toks = <<>> THEN <<>> ELSE TokenChars(Head(toks)) \o Flatten(Tail(toks))

QueryStrings == UNION {[1..n -> QueryTokens] : n \in 0..MaxQueryLen}

\* the URL with the query string toks; without one when asked is FALSE
EchoUrl(asked, toks) ==
    IF asked THEN HISCORES_API \o <<"?">> \o Flatten(toks) ELSE HISCORES_API

\* the readings of the wall clock
Clock ==
    {[year |-> 2021, month |-> 3, day |-> 7, hour |-> 9, minute |-> 5, second |-> 0],
     [year |-> 2021, month |-> 12, day |-> 31, hour |-> 23, minute |-> 59, second |-> 59]}

\* the payloads of the responses handed to process_hiscores_response: all
\* lines well-formed, and a skill line of the wrong field count
ProcessPayloads == {<<"ok3", "alt3", "ok2", "alt2">>, <<"ok3", "ok2">>}

----------------------------------------------------------------------------
(* Specification of process_hiscores_response: one call on one response.   *)

InitProcess ==
    /\ pc = "process"
    /\ payload \in ProcessPayloads
    /\ text = Unused
    /\ result = Unused
    /\ log = <<>>
    /\ player = Unused
    /\ gets = 0
    /\ echo \in {[asked |-> FALSE, tokens |-> <<>>]}
                  \cup {[asked |-> TRUE, tokens |-> q] : q \in QueryStrings}
    /\ response = [text |-> Render(payload, TRUE), status_code |-> 200,
                   elapsed |-> 1, url |-> EchoUrl(echo.asked, echo.tokens)]
    /\ outcome = NoOutcome
    /\ history = <<>>

Process(now) ==
    /\ pc = "process"
    /\ log' = log \o SanitizeLog(response.text)
    /\ outcome' = process_hiscores_response(response, now)
    /\ pc' = "done"
    /\ UNCHANGED <<payload, text, result, player, gets, response, history, echo>>

NextProcess == \E now \in Clock : Process(now)

SpecProcess == InitProcess /\ [][NextProcess]_vars

----------------------------------------------------------------------------
(* Properties of sanitize_hiscores_stats (under SpecSanitize).     *)

Range(seq) == {seq[i] : i \in 1..Len(seq)}

Done == pc = "done"

\* the line at position i of the payload fits the schema of its position:
\* the skill schema in the first NumSkills positions, the activity schema after
CountFits(i) ==
    KindCount(payload[i]) =
        IF i <= NumSkills THEN Len(HISCORES_RESPONSE_SKILL_COLS)
        ELSE Len(HISCORE_RESPONSE_ACTIVITY_COLS)

Fits(i) == CountFits(i) /\ KindNumeric(payload[i])

\* the positions that have a catalog label
Labelled == 1..Min(Len(payload), NumSkills + NumActivities)

\* the error kind of the block the position belongs to
BlockError(i) ==
    IF i <= NumSkills THEN "MalformedSkillData" ELSE "MalformedActivityData"

\* C1: whenever sanitize_hiscores_stats returns, the keys of skills are
\* exactly the skill catalog and the keys of activities exactly the activity
\* catalog, whatever the number of lines of the payload.
C1_CompleteOrError ==
    (Done /\ result.kind = "ok") =>
        /\ DOMAIN result.skills = Range(HISCORES_RESPONSE_SKILLS)
        /\ DOMAIN result.activities = Range(HISCORES_RESPONSE_ACTIVITIES)

WellFormedPayload ==
    /\ Len(payload) = NumSkills + NumActivities
    /\ \A i \in 1..Len(payload) : Fits(i)

\* C3: a well-formed payload of exactly |skills| + |activities| lines parses
\* to a result where the i-th skill label maps to line i and the j-th
\* activity label to line |skills| + j, each entry mapping the k-th field
\* name of the schema to the k-th integer of the line.
C3_RoundTrip ==
    (Done /\ WellFormedPayload) =>
        /\ result.kind = "ok"
        /\ DOMAIN result.skills = Range(HISCORES_RESPONSE_SKILLS)
        /\ DOMAIN result.activities = Range(HISCORES_RESPONSE_ACTIVITIES)
        /\ \A i \in 1..NumSkills :
            /\ DOMAIN result.skills[HISCORES_RESPONSE_SKILLS[i]]
                    = Range(HISCORES_RESPONSE_SKILL_COLS)
            /\ \A k \in 1..Len(HISCORES_RESPONSE_SKILL_COLS) :
                result.skills[HISCORES_RESPONSE_SKILLS[i]][HISCORES_RESPONSE_SKILL_COLS[k]]
                    = FieldValue(payload[i], i, k)
        /\ \A j \in 1..NumActivities :
            /\ DOMAIN result.activities[HISCORES_RESPONSE_ACTIVITIES[j]]
                    = Range(HISCORE_RESPONSE_ACTIVITY_COLS)
            /\ \A k \in 1..Len(HISCORE_RESPONSE_ACTIVITY_COLS) :
                result.activities[HISCORES_RESPONSE_ACTIVITIES[j]][HISCORE_RESPONSE_ACTIVITY_COLS[k]]
                    = FieldValue(payload[NumSkills + j], NumSkills + j, k)

\* a well-formed payload with the unranked sentinel, a three-digit integer
\* and a trailing newline has been parsed
C3_Witness ==
    /\ Done
    /\ WellFormedPayload
    /\ payload[2] = "ok3"
    /\ payload[3] = "alt2"
    /\ text[Len(text)] = "\n"
    /\ result.kind = "ok"
    /\ result.skills["Attack"]["rank"] = -1
    /\ result.activities["League Points"]["score"] = 203

\* C4: a payload in which one of the first |skills| lines has a field count
\* different from the skill schema's (the empty text included, whose single
\* line is the empty string) fails with MalformedSkillData.
C4_SkillMismatchFails ==
    (Done /\ (payload = <<>>
                \/ \E i \in 1..Min(Len(payload), NumSkills) : ~CountFits(i))) =>
        result.kind = "MalformedSkillData"

\* C8 as stated, on payloads whose fields are all integers and whose skill
\* lines fit: if any line after the first |skills| lines, those past
\* position |skills| + |activities| included, has a field count different
\* from the activity schema's, the call fails with MalformedActivityData.
C8_EveryLineValidated ==
    (/\ Done
     /\ \A i \in 1..Len(payload) : KindNumeric(payload[i])
     /\ Len(payload) >= NumSkills
     /\ \A i \in 1..NumSkills : Fits(i)
     /\ \E i \in (NumSkills + 1)..Len(payload) : ~CountFits(i)) =>
        result.kind = "MalformedActivityData"

\* C8, amended: only the lines that have a catalog label are validated. When
\* one of them does not parse the call returns no result, and it fails with
\* MalformedActivityData when the first line that does not parse is an
\* activity line of the wrong field count; lines past position
\* |skills| + |activities| are never parsed, so whatever they hold the call
\* returns a result when every labelled line fits.
C8_LabelledLinesValidated ==
    Done =>
        /\ (\E i \in Labelled : ~Fits(i)) => result.kind # "ok"
        /\ \A i \in Labelled :
            (/\ i > NumSkills
             /\ ~CountFits(i)
             /\ \A j \in 1..(i - 1) : Fits(j)) => result.kind = "MalformedActivityData"
        /\ (payload # <<>> /\ \A i \in Labelled : Fits(i)) => result.kind = "ok"

\* a payload with a malformed line past the last label has been parsed, and
\* so has one with an activity line of the wrong field count
C8_Witness ==
    /\ Done
    /\ Len(payload) > NumSkills + NumActivities
    /\ ~CountFits(Len(payload))
    /\ \A i \in Labelled : Fits(i)
    /\ result.kind = "ok"
    /\ DOMAIN result.activities = Range(HISCORES_RESPONSE_ACTIVITIES)

\* C9: a line with the right field count and a non-integer field, when it
\* is the first line that does not parse, makes the call fail with the
\* error of its block: MalformedSkillData for a skill line,
\* MalformedActivityData for an activity line.
C9_NonIntegerWrapped ==
    Done =>
        \A i \in Labelled :
            (/\ CountFits(i)
             /\ ~KindNumeric(payload[i])
             /\ \A j \in 1..(i - 1) : Fits(j)) => result.kind = BlockError(i)

\* C10: when several lines violate their schema, the failure surfaced is
\* the one of the earliest violating line, skill lines before activity
\* lines: the skill-level error when that line is a skill line, the
\* activity-level error otherwise.
C10_FailFastInOrder ==
    Done =>
        \A i \in Labelled :
            (/\ ~Fits(i)
             /\ \A j \in 1..(i - 1) : Fits(j)
             /\ \E j \in Labelled : j > i /\ ~Fits(j)) => result.kind = BlockError(i)

----------------------------------------------------------------------------
(* Properties of request_hiscores (under SpecRequest).             *)

Calls == 1..Len(history)

\* the body carries the literal <!doctype html>, by how it was composed
CarriesMarker(body) == body \in {"html", "html_late"}

\* C2: a response whose body contains <!doctype html> fails with
\* HiscoresDownError whatever its status code: never InvalidResponse for a
\* non-200 status, never returned for a 200 status.
C2_HtmlBeforeStatus ==
    \A c \in Calls :
        (history[c].transport = "response" /\ CarriesMarker(history[c].body)) =>
            history[c].outcome.kind = "HiscoresDownError"

\* a maintenance page that starts after a blank line came with a non-200
\* status, and with status 200, and both calls failed as service-down
C2_Witness ==
    \E c, d \in Calls :
        /\ history[c].body = "html_late"
        /\ history[c].response.status_code = 503
        /\ history[c].outcome.kind = "HiscoresDownError"
        /\ history[d].body = "html"
        /\ history[d].response.status_code = 200
        /\ history[d].outcome.kind = "HiscoresDownError"

\* C6: two responses with the same body, status code and request URL that
\* differ only in elapsed time, one above the warning threshold and one not,
\* have the same outcome; the slow one only adds a warning to the log.
C6_SlowIsAdvisory ==
    \A c, d \in Calls :
        (/\ history[c].transport = "response"
         /\ history[d].transport = "response"
         /\ history[c].response.text = history[d].response.text
         /\ history[c].response.status_code = history[d].response.status_code
         /\ history[c].response.url = history[d].response.url
         /\ history[c].response.elapsed > DefaultWarnSecs
         /\ history[d].response.elapsed <= DefaultWarnSecs) =>
            /\ history[c].outcome = history[d].outcome
            /\ history[c].log = history[d].log \o <<SlowWarning>>

\* the same statistics came back slowly in one call and in time in another,
\* and both calls returned the response
C6_Witness ==
    \E c, d \in Calls :
        /\ history[c].body = "stats"
        /\ history[d].body = "stats"
        /\ history[c].player = history[d].player
        /\ history[c].response.status_code = 200
        /\ history[d].response.status_code = 200
        /\ history[c].response.elapsed > DefaultWarnSecs
        /\ history[d].response.elapsed <= DefaultWarnSecs
        /\ history[c].outcome.kind = "ok"
        /\ history[d].outcome.kind = "ok"
        /\ history[c].log = <<SlowWarning>>
        /\ history[d].log = <<>>

\* C7: every invocation issues exactly one GET, and one whose GET ends in a
\* transport timeout fails with HiscoresDownError, not with the exception
\* of the transport.
C7_TimeoutIsServiceDown ==
    \A c \in Calls :
        /\ history[c].gets = 1
        /\ history[c].transport \in TransportTimeouts =>
                history[c].outcome.kind = "HiscoresDownError"

----------------------------------------------------------------------------
(* Properties of process_hiscores_response (under SpecProcess).    *)

\* the parameters of the echoed query string: its pieces between "&"
Parameters == Split(echo.tokens, "&")

\* no parameter of the query string is empty (no leading, trailing or doubled
\* "&"); the empty query string has no parameter at all
NoEmptyParameter ==
    echo.tokens = <<>> \/ \A i \in 1..Len(Parameters) : Parameters[i] # <<>>

\* toks is player=<value>, the value holding no second "="
IsPlayerPair(toks) ==
    /\ Len(toks) >= 2
    /\ toks[1] = "player"
    /\ toks[2] = "="
    /\ \A i \in 3..Len(toks) : toks[i] # "="

\* the value of player=<value> with every "+" written as a space
DecodedValue(toks) ==
    Flatten([i \in 1..(Len(toks) - 2) |-> IF toks[i + 2] = "+" THEN " " ELSE toks[i + 2]])

\* C5 as stated, on query strings without an empty parameter: with a
\* payload that parses, the call fails with InvalidRequestEcho unless the
\* query string is exactly one key=value parameter with key player (so it
\* fails for no query, another key, two or more parameters), and then it
\* returns the value with "+" as a space.
C5_OnePlayerParameter ==
    (Done /\ WellFormedPayload /\ NoEmptyParameter) =>
        IF echo.asked /\ Len(Parameters) = 1 /\ IsPlayerPair(Parameters[1])
        THEN /\ outcome.kind = "ok"
             /\ outcome.player = DecodedValue(Parameters[1])
        ELSE outcome.kind = "InvalidRequestEcho"

\* C5, amended: with a payload that parses, the call fails with
\* InvalidRequestEcho unless the whole query string is player=<value> with
\* no second "=" in it (so it fails for no query, another key, two key=value
\* parameters); "&" does not end the value, and the call returns all that
\* follows "player=" with "+" as a space.
C5_PlayerEqualsValue ==
    (Done /\ WellFormedPayload) =>
        IF echo.asked /\ IsPlayerPair(echo.tokens)
        THEN /\ outcome.kind = "ok"
             /\ outcome.player = DecodedValue(echo.tokens)
        ELSE outcome.kind = "InvalidRequestEcho"

\* the query string player=a+a has been answered with the player "a a"
C5_Witness ==
    /\ Done
    /\ WellFormedPayload
    /\ echo.asked
    /\ echo.tokens = <<"player", "=", "a", "+", "a">>
    /\ outcome.kind = "ok"
    /\ outcome.player = <<"a", " ", "a">>

====
